---- MODULE Spec2Model ----
(***************************************************************************)
(* Model of the elton static-serve middleware (static_serve.go).           *)
(*                                                                         *)
(* New(staticFile, config) precomputes the cache-control value and returns *)
(* a handler.  The handler is one function call per request: it is         *)
(* modelled by the operator Handle, which maps the configuration, the      *)
(* request and the outcomes of the pluggable StaticFile backend to the     *)
(* result of the call (returned error, calls of the continuation, backend  *)
(* calls made, response headers, body).                                    *)
(*                                                                         *)
(* File paths and header names are sequences of one-character strings, so  *)
(* that splitting, cleaning, prefix tests and canonicalisation are         *)
(* computed character by character.  Header values, error messages and    *)
(* file contents are TLA+ strings.                                         *)
(***************************************************************************)
EXTENDS Integers, Sequences, FiniteSets, TLC

VARIABLES
    config,        \* the Config given to New
    cacheControl,  \* the cache-control value New computed
    request,       \* the request of the last call of the handler
    backend,       \* what the StaticFile backend answers during that call
    env,           \* what the host does during that call: the result of c.Next()
                   \* and the order in which range visits config.Header
    response       \* the result of that call

vars == <<config, cacheControl, request, backend, env, response>>

(***************************************************************************)
(* Bounds of the model.                                                    *)
(***************************************************************************)
\* the longest request path, in '/'-separated segments
MaxSegs == 2
\* the largest number of entries of Config.Header
MaxHeaders == 2

(***************************************************************************)
(* Strings as character sequences.                                         *)
(***************************************************************************)
Sep == "/"

\* strings.HasPrefix(s, prefix)
HasPrefix(s, prefix) ==
    /\ Len(s) >= Len(prefix)
    /\ SubSeq(s, 1, Len(prefix)) = prefix

\* index of the first sep in s, 0 when there is none
RECURSIVE IndexFrom(_, _, _)
IndexFrom(s, sep, i) ==
    IF i > Len(s) THEN 0
    ELSE IF s[i] = sep THEN i
    ELSE IndexFrom(s, sep, i + 1)

\* strings.SplitN(s, sep, -1): all the substrings between separators; the
\* empty string yields one empty substring
RECURSIVE SplitN(_, _)
SplitN(s, sep) ==
    LET i == IndexFrom(s, sep, 1)
    IN  IF i = 0 THEN <<s>>
        ELSE <<SubSeq(s, 1, i - 1)>> \o SplitN(SubSeq(s, i + 1, Len(s)), sep)

\* strings.Join(elems, sep)
RECURSIVE JoinSep(_, _)
JoinSep(elems, sep) ==
    IF elems = <<>> THEN <<>>
    ELSE IF Len(elems) = 1 THEN elems[1]
    ELSE elems[1] \o <<sep>> \o JoinSep(Tail(elems), sep)

Dot == <<".">>
DotDot == <<".", ".">>

\* The elements filepath.Clean keeps, in order: empty and "." elements are
\* dropped, ".." removes the element before it, is dropped at the root of a
\* rooted path and is kept at the start of a relative one.
RECURSIVE CleanElems(_, _, _)
CleanElems(elems, out, rooted) ==
    IF elems = <<>> THEN out
    ELSE LET e == Head(elems)
             rest == Tail(elems)
         IN  IF e = <<>> \/ e = Dot THEN CleanElems(rest, out, rooted)
             ELSE IF e = DotDot
                  THEN IF out # <<>> /\ out[Len(out)] # DotDot
                       THEN CleanElems(rest, SubSeq(out, 1, Len(out) - 1), rooted)
                       ELSE IF rooted THEN CleanElems(rest, out, rooted)
                       ELSE CleanElems(rest, Append(out, DotDot), rooted)
             ELSE CleanElems(rest, Append(out, e), rooted)

\* filepath.Clean(path) on a '/'-separated system
Clean(path) ==
    IF path = <<>> THEN Dot
    ELSE LET rooted == path[1] = Sep
             kept == CleanElems(SplitN(path, Sep), <<>>, rooted)
         IN  IF rooted THEN <<Sep>> \o JoinSep(kept, Sep)
             ELSE IF kept = <<>> THEN Dot
             ELSE JoinSep(kept, Sep)

\* filepath.Join(a, b): the non-empty elements joined by the separator, cleaned;
\* the empty string when both are empty
PathJoin(a, b) ==
    IF a # <<>> THEN Clean(a \o <<Sep>> \o b)
    ELSE IF b # <<>> THEN Clean(b)
    ELSE <<>>

(***************************************************************************)
(* Number and time formatting.                                             *)
(***************************************************************************)
Digits == <<"0", "1", "2", "3", "4", "5", "6", "7", "8", "9",
            "a", "b", "c", "d", "e", "f">>

\* the digits of n >= 0 in the given base, as a string
RECURSIVE FormatUint(_, _)
FormatUint(n, base) ==
    IF n < base THEN Digits[n + 1]
    ELSE FormatUint(n \div base, base) \o Digits[(n % base) + 1]

\* strconv.FormatInt(n, base): a leading '-' for a negative number
FormatInt(n, base) ==
    IF n < 0 THEN "-" \o FormatUint(0 - n, base) ELSE FormatUint(n, base)

\* strconv.Itoa(n)
Itoa(n) == FormatInt(n, 10)

\* fmt.Sprintf("%x", n) of a signed integer
Hex(n) == FormatInt(n, 16)

\* two decimal digits, zero padded ("02", "15", "04", "05" of a time layout)
Pad2(n) == IF n < 10 THEN "0" \o Itoa(n) ELSE Itoa(n)

\* four decimal digits, zero padded ("2006" of a time layout)
Pad4(n) ==
    IF n < 10 THEN "000" \o Itoa(n)
    ELSE IF n < 100 THEN "00" \o Itoa(n)
    ELSE IF n < 1000 THEN "0" \o Itoa(n)
    ELSE Itoa(n)

DayNames == <<"Sun", "Mon", "Tue", "Wed", "Thu", "Fri", "Sat">>
MonthNames == <<"Jan", "Feb", "Mar", "Apr", "May", "Jun",
                "Jul", "Aug", "Sep", "Oct", "Nov", "Dec">>

\* the civil date [year, month, day] of a day number counted from 1970-01-01
CivilFromDays(days) ==
    LET z == days + 719468
        era == z \div 146097
        doe == z - era * 146097
        yoe == (doe - doe \div 1460 + doe \div 36524 - doe \div 146096) \div 365
        doy == doe - (365 * yoe + yoe \div 4 - yoe \div 100)
        mp == (5 * doy + 2) \div 153
        d == doy - (153 * mp + 2) \div 5 + 1
        m == IF mp < 10 THEN mp + 3 ELSE mp - 9
        y == yoe + era * 400 + (IF m <= 2 THEN 1 ELSE 0)
    IN  [year |-> y, month |-> m, day |-> d]

\* time.Unix(sec, 0).UTC().Format("Mon, 02 Jan 2006 15:04:05 GMT")
FormatLastModified(sec) ==
    LET days == sec \div 86400
        rem == sec % 86400
        date == CivilFromDays(days)
    IN  DayNames[((days + 4) % 7) + 1] \o ", " \o Pad2(date.day) \o " "
        \o MonthNames[date.month] \o " " \o Pad4(date.year) \o " "
        \o Pad2(rem \div 3600) \o ":" \o Pad2((rem % 3600) \div 60) \o ":"
        \o Pad2(rem % 60) \o " GMT"

(***************************************************************************)
(* Response headers (the host framework's SetHeader on http.Header).       *)
(***************************************************************************)
Lowers == <<"a", "b", "c", "d", "e", "f", "g", "h", "i", "j", "k", "l", "m",
            "n", "o", "p", "q", "r", "s", "t", "u", "v", "w", "x", "y", "z">>
Uppers == <<"A", "B", "C", "D", "E", "F", "G", "H", "I", "J", "K", "L", "M",
            "N", "O", "P", "Q", "R", "S", "T", "U", "V", "W", "X", "Y", "Z">>

UpperOf == [c \in {Lowers[i] : i \in 1..26} |-> Uppers[IndexFrom(Lowers, c, 1)]]
LowerOf == [c \in {Uppers[i] : i \in 1..26} |-> Lowers[IndexFrom(Uppers, c, 1)]]

ToUpper(c) == IF c \in DOMAIN UpperOf THEN UpperOf[c] ELSE c
ToLower(c) == IF c \in DOMAIN LowerOf THEN LowerOf[c] ELSE c

\* textproto.CanonicalMIMEHeaderKey, which http.Header.Set applies to the key:
\* the first letter and every letter after a hyphen in upper case, the rest in
\* lower case
RECURSIVE CanonicalFrom(_, _)
CanonicalFrom(key, upper) ==
    IF key = <<>> THEN <<>>
    ELSE LET c == Head(key)
         IN  <<IF upper THEN ToUpper(c) ELSE ToLower(c)>>
             \o CanonicalFrom(Tail(key), c = "-")

CanonicalHeaderKey(key) == CanonicalFrom(key, TRUE)

\* elton header names
HeaderETag == <<"E", "T", "a", "g">>
HeaderLastModified == <<"L", "a", "s", "t", "-", "M", "o", "d", "i", "f", "i", "e", "d">>
HeaderContentType == <<"C", "o", "n", "t", "e", "n", "t", "-", "T", "y", "p", "e">>
HeaderCacheControl == <<"C", "a", "c", "h", "e", "-", "C", "o", "n", "t", "r", "o", "l">>

NoHeaders == [k \in {} |-> ""]

\* c.SetHeader(key, value): the value replaces any value of the same
\* (canonicalised) name
SetHeader(header, key, value) ==
    LET k == CanonicalHeaderKey(key)
    IN  [x \in (DOMAIN header) \cup {k} |-> IF x = k THEN value ELSE header[x]]

HasHeader(header, key) == CanonicalHeaderKey(key) \in DOMAIN header

GetHeader(header, key) == header[CanonicalHeaderKey(key)]

\* filepath.Ext(path): the suffix from the last '.' of the last element
RECURSIVE ExtFrom(_, _)
ExtFrom(path, i) ==
    IF i < 1 \/ path[i] = Sep THEN <<>>
    ELSE IF path[i] = "." THEN SubSeq(path, i, Len(path))
    ELSE ExtFrom(path, i - 1)

Ext(path) == ExtFrom(path, Len(path))

\* mime.TypeByExtension on the extensions of the model ("" when unknown)
TypeByExtension(ext) ==
    IF ext = <<".", "h", "t", "m", "l">> THEN "text/html; charset=utf-8"
    ELSE IF ext = <<".", "c", "s", "s">> THEN "text/css; charset=utf-8"
    ELSE ""

\* c.SetContentTypeByExt(file): the header is set when the extension has a
\* known type
SetContentTypeByExt(header, file) ==
    LET contentType == TypeByExtension(Ext(file))
    IN  IF contentType = "" THEN header
        ELSE SetHeader(header, HeaderContentType, contentType)

(***************************************************************************)
(* Errors.  A returned error is nil, a *hes.Error (status code, message,   *)
(* category) or another error value (message only).                        *)
(***************************************************************************)
ErrCategory == "elton-static-serve"

StatusBadRequest == 400
StatusNotFound == 404
StatusInternalServerError == 500

NilErr == [kind |-> "nil", status |-> 0, message |-> "", category |-> ""]

HesError(status, message, category) ==
    [kind |-> "hes", status |-> status, message |-> message, category |-> category]

PlainError(message) ==
    [kind |-> "error", status |-> 0, message |-> message, category |-> ""]

\* getStaticServeError(message, statusCode)
getStaticServeError(message, statusCode) == HesError(statusCode, message, ErrCategory)

ErrNotAllowQueryString ==
    getStaticServeError("static serve not allow query string", StatusBadRequest)
ErrNotFound == getStaticServeError("static file not found", StatusNotFound)
ErrOutOfPath == getStaticServeError("out of path", StatusBadRequest)
ErrNotAllowAccessDot ==
    getStaticServeError("static server not allow with dot", StatusBadRequest)

\* e.Error(): the message of a plain error; a *hes.Error prints its fields
ErrorString(e) ==
    IF e.kind = "hes"
    THEN "statusCode=" \o Itoa(e.status) \o ", category=" \o e.category
         \o ", message=" \o e.message
    ELSE e.message

\* the error returned for a failed staticFile.Get: a *hes.Error as it is,
\* any other error wrapped with status 500 and the middleware's category
ReadError(e) ==
    IF e.kind = "hes" THEN e
    ELSE HesError(StatusInternalServerError, e.message, ErrCategory)

\* the error returned for a failed staticFile.NewReader
ReaderError(e) == getStaticServeError(ErrorString(e), StatusBadRequest)

(***************************************************************************)
(* File contents and the strong ETag.                                      *)
(***************************************************************************)
\* a []byte: nil, or a slice holding data (possibly of length 0)
NilBuf == [isNil |-> TRUE, data |-> ""]
Buf(data) == [isNil |-> FALSE, data |-> data]

\* base64.URLEncoding of the SHA-1 of the contents the model serves
Sha1Base64(data) ==
    IF data = "abc" THEN "qZk-NkcGgWq6PiVxeFDCbJzQ2J0="
    ELSE IF data = "a" THEN "hvfkN_qlp_zhXR3cuerq6jd2Z7g="
    ELSE "2jmj7l5rSw0yVb_vlWAYkK_YBwk="

\* generateETag(buf)
generateETag(buf) ==
    LET size == Len(buf.data)
    IN  IF size = 0 THEN "\"0-2jmj7l5rSw0yVb_vlWAYkK_YBwk=\""
        ELSE "\"" \o Hex(size) \o "-" \o Sha1Base64(buf.data) \o "\""

\* mutant of WeakETag: the modification time is printed in decimal
WeakETagDecimalTime(info) ==
    "W/\"" \o Hex(info.size) \o "-" \o Itoa(info.modTime) \o "\""

\* fmt.Sprintf(`W/"%x-%x"`, fileInfo.Size(), fileInfo.ModTime().Unix())
WeakETag(info) == "W/\"" \o Hex(info.size) \o "-" \o Hex(info.modTime) \o "\""

\* os.FileInfo as Stat returns it: nil, or the size and the modification time
NilInfo == [isNil |-> TRUE, size |-> 0, modTime |-> 0]
FileInfo(size, modTime) == [isNil |-> FALSE, size |-> size, modTime |-> modTime]

(***************************************************************************)
(* New: the cache-control value computed at construction.                  *)
(***************************************************************************)
RECURSIVE JoinStrings(_, _)
JoinStrings(elems, sep) ==
    IF elems = <<>> THEN ""
    ELSE IF Len(elems) = 1 THEN elems[1]
    ELSE elems[1] \o sep \o JoinStrings(Tail(elems), sep)

CacheArr(cfg) ==
    <<"public">>
    \o (IF cfg.MaxAge > 0 THEN <<"max-age=" \o Itoa(cfg.MaxAge)>> ELSE <<>>)
    \o (IF cfg.SMaxAge > 0 THEN <<"s-maxage=" \o Itoa(cfg.SMaxAge)>> ELSE <<>>)

\* mutant of CacheControl: "public" alone is joined too
CacheControlPublicAlone(cfg) == JoinStrings(CacheArr(cfg), ", ")

CacheControl(cfg) ==
    IF Len(CacheArr(cfg)) > 1 THEN JoinStrings(CacheArr(cfg), ", ") ELSE ""

(***************************************************************************)
(* The handler New returns.                                                *)
(***************************************************************************)
\* the result of a call before the handler has done anything
EmptyResponse ==
    [done |-> FALSE, err |-> NilErr, next |-> 0, calls |-> <<>>,
     header |-> NoHeaders, bodyBuffer |-> NilBuf,
     body |-> [isNil |-> TRUE, file |-> <<>>]]

\* a call of a method of the StaticFile backend
Call(r, op, file) == [r EXCEPT !.calls = Append(@, [op |-> op, file |-> file])]

\* return c.Next()
ReturnNext(r, e) == [r EXCEPT !.next = @ + 1, !.err = e.nextErr]

\* err = e; return
ReturnError(r, e) == [r EXCEPT !.err = e]

\* mutant of Skip: a nil config.Skipper is not replaced by the default one
SkipWithoutDefault(cfg, req) == cfg.Skipper # "nil" /\ req.skipAnswer

\* skipper(c): config.Skipper, or elton.DefaultSkipper (c.Committed) when nil
Skip(cfg, req) ==
    IF cfg.Skipper = "nil" THEN req.committed ELSE req.skipAnswer

\* the file name: the first route parameter's value, else the URL path
RequestFile(req) ==
    LET file == IF Len(req.rawParams) > 0 THEN req.rawParams[1] ELSE <<>>
    IN  IF file = <<>> THEN req.urlPath ELSE file

\* mutant of HasDotItem: only the first character of the path is tested
HasDotItemFirstOnly(file) == file # <<>> /\ file[1] = "."

\* an element of the path starts with '.'
HasDotItem(file) ==
    LET arr == SplitN(file, Sep)
    IN  \E i \in DOMAIN arr : arr[i] # <<>> /\ arr[i][1] = "."

DenyDot(cfg, file) == cfg.DenyDot /\ HasDotItem(file)

\* the joined path does not start with the configured path
OutOfPath(cfg, file) == ~HasPrefix(file, cfg.Path)

\* mutant of DenyQueryString: the test of the query string is inverted
DenyQueryStringInverted(cfg, req) == cfg.DenyQueryString /\ req.rawQuery = ""

DenyQueryString(cfg, req) == cfg.DenyQueryString /\ req.rawQuery # ""

\* mutant of NotFound: the flag is read the wrong way round
NotFoundInverted(cfg, r, e) ==
    IF cfg.NotFoundNext THEN ReturnError(r, ErrNotFound) ELSE ReturnNext(r, e)

\* the file does not exist: the next handler, or ErrNotFound
NotFound(cfg, r, e) ==
    IF cfg.NotFoundNext THEN ReturnNext(r, e) ELSE ReturnError(r, ErrNotFound)

\* the ETag header: strong from the content read, weak from Stat
ETagStep(cfg, r, fileBuf, file, be) ==
    IF cfg.DisableETag THEN r
    ELSE IF cfg.EnableStrongETag
         THEN [r EXCEPT !.header = SetHeader(@, HeaderETag, generateETag(fileBuf))]
         ELSE LET r1 == Call(r, "Stat", file)
              IN  IF be.stat.isNil THEN r1
                  ELSE [r1 EXCEPT !.header = SetHeader(@, HeaderETag, WeakETag(be.stat))]

\* the Last-Modified header, from Stat (the file does not change during a
\* call: both calls of Stat give the same answer)
LastModifiedStep(cfg, r, file, be) ==
    IF cfg.DisableLastModified THEN r
    ELSE LET r1 == Call(r, "Stat", file)
         IN  IF be.stat.isNil THEN r1
             ELSE [r1 EXCEPT !.header =
                       SetHeader(@, HeaderLastModified, FormatLastModified(be.stat.modTime))]

\* mutant of RangeSetHeader: a header the handler has set is not overwritten
RECURSIVE RangeSetHeaderKeepSet(_, _, _)
RangeSetHeaderKeepSet(header, cfgHeader, order) ==
    IF order = <<>> THEN header
    ELSE RangeSetHeaderKeepSet(
             IF HasHeader(header, Head(order)) THEN header
             ELSE SetHeader(header, Head(order), cfgHeader[Head(order)]),
             cfgHeader, Tail(order))

\* for k, v := range config.Header { c.SetHeader(k, v) }, the keys in the
\* order range visits them
RECURSIVE RangeSetHeader(_, _, _)
RangeSetHeader(header, cfgHeader, order) ==
    IF order = <<>> THEN header
    ELSE RangeSetHeader(SetHeader(header, Head(order), cfgHeader[Head(order)]),
                        cfgHeader, Tail(order))

\* the config.Header loop and then the Cache-Control header
HeaderStep(cfg, cc, r, e) ==
    LET h1 == RangeSetHeader(r.header, cfg.Header, e.order)
    IN  [r EXCEPT !.header =
             IF cc # "" THEN SetHeader(h1, HeaderCacheControl, cc) ELSE h1]

\* the body: the content read for the strong ETag, else a new reader
BodyStep(r, fileBuf, file, be, e) ==
    IF ~fileBuf.isNil
    THEN ReturnNext([r EXCEPT !.bodyBuffer = fileBuf], e)
    ELSE LET r1 == Call(r, "NewReader", file)
         IN  IF be.reader.kind # "nil" THEN ReturnError(r1, ReaderError(be.reader))
             ELSE ReturnNext([r1 EXCEPT !.body = [isNil |-> FALSE, file |-> file]], e)

\* the handler from SetContentTypeByExt on: the file exists
ServeFile(cfg, cc, file, be, e, r) ==
    LET r1 == [r EXCEPT !.header = SetContentTypeByExt(@, file)]
        strong == ~cfg.DisableETag /\ cfg.EnableStrongETag
        r2 == IF strong THEN Call(r1, "Get", file) ELSE r1
    IN  IF strong /\ be.get.err.kind # "nil"
        THEN ReturnError(r2, ReadError(be.get.err))
        ELSE LET fileBuf == IF strong THEN be.get.buf ELSE NilBuf
                 r3 == ETagStep(cfg, r2, fileBuf, file, be)
                 r4 == LastModifiedStep(cfg, r3, file, be)
                 r5 == HeaderStep(cfg, cc, r4, e)
             IN  BodyStep(r5, fileBuf, file, be, e)

\* the handler after the skipper said no
Validate(cfg, cc, req, be, e, r) ==
    IF DenyDot(cfg, RequestFile(req)) THEN ReturnError(r, ErrNotAllowAccessDot)
    ELSE LET file == PathJoin(cfg.Path, RequestFile(req))
         IN  IF OutOfPath(cfg, file) THEN ReturnError(r, ErrOutOfPath)
             ELSE IF DenyQueryString(cfg, req)
                  THEN ReturnError(r, ErrNotAllowQueryString)
             ELSE LET r1 == Call(r, "Exists", file)
                  IN  IF ~be.exists
                      THEN NotFound(cfg, r1, e)
                      ELSE ServeFile(cfg, cc, file, be, e, r1)

\* func(c *elton.Context) (err error)
Handle(cfg, cc, req, be, e) ==
    LET r == [EmptyResponse EXCEPT !.done = TRUE]
    IN  IF Skip(cfg, req) THEN ReturnNext(r, e)
        ELSE Validate(cfg, cc, req, be, e, r)

(***************************************************************************)
(* Inputs: configurations, requests, backend answers.                      *)
(***************************************************************************)
\* path elements: empty (a doubled or trailing separator), ".", "..", a
\* directory, a name the configured path is a string prefix of, a dot file
Segments ==
    {<<>>, <<".">>, <<".", ".">>, <<"w">>, <<"w", "2">>, <<".", "g">>}

\* the relative paths of 1..MaxSegs elements
RelPaths ==
    {JoinSep(segs, Sep) : segs \in UNION {[1..n -> Segments] : n \in 1..MaxSegs}}

\* URL paths: the empty path and every '/'-rooted path
UrlPaths == {<<>>} \cup {<<Sep>> \o p : p \in RelPaths}

\* values of config.Path
Roots == {<<"/", "w">>, <<"/", "w", "/">>}

\* the values of the route parameters, when the route has any
ParamLists ==
    {<< <<>> >>, << <<"w">> >>, << <<".", "/", "w">> >>,
     << <<".", ".", "/", "w", "2">> >>, << <<"w">>, <<".", "g">> >>}

BaseRequest ==
    [rawParams |-> <<>>, urlPath |-> <<Sep>>, rawQuery |-> "",
     committed |-> FALSE, skipAnswer |-> FALSE]

\* requests to validate: every URL path without route parameters, and the
\* route parameters in front of two URL paths; with and without a query
\* string; not committed, committed, or one the configured skipper skips
Requests ==
    {[rawParams |-> f.rawParams, urlPath |-> f.urlPath, rawQuery |-> q,
      committed |-> sk = "committed", skipAnswer |-> sk = "skip"] :
        f \in {[rawParams |-> <<>>, urlPath |-> u] : u \in UrlPaths}
              \cup {[rawParams |-> ps, urlPath |-> u] :
                        ps \in ParamLists,
                        u \in {<<"/", "w">>, <<"/", ".", "g">>}},
        q \in {"", "v=1"}, sk \in {"no", "committed", "skip"}}

BaseConfig ==
    [Path |-> <<"/", "w">>, MaxAge |-> 0, SMaxAge |-> 0, Header |-> NoHeaders,
     DenyQueryString |-> FALSE, DenyDot |-> FALSE, EnableStrongETag |-> FALSE,
     DisableETag |-> FALSE, DisableLastModified |-> FALSE,
     NotFoundNext |-> FALSE, Skipper |-> "nil"]

\* configurations of the validation steps
Configs ==
    {[BaseConfig EXCEPT !.Path = root, !.DenyQueryString = dq, !.DenyDot = dd,
                        !.NotFoundNext = nf, !.Skipper = sk,
                        !.EnableStrongETag = st] :
        root \in Roots, dq \in BOOLEAN, dd \in BOOLEAN, nf \in BOOLEAN,
        sk \in {"nil", "custom"}, st \in BOOLEAN}

\* errors of a backend: a plain error, and a *hes.Error with its own status
BackendPlainErr == PlainError("read failed")
BackendHesErr == HesError(403, "asset is private", "backend")

InfoA == FileInfo(120, 1700000000)
InfoB == FileInfo(255, 86399)

BaseBackend ==
    [exists |-> TRUE, get |-> [buf |-> Buf("abc"), err |-> NilErr],
     stat |-> InfoA, reader |-> NilErr]

\* backends of the validation steps: the file exists or not
Backends == {[BaseBackend EXCEPT !.exists = ex] : ex \in BOOLEAN}

\* what c.Next() returns
NextErrs == {NilErr, PlainError("downstream failed")}

RECURSIVE Perms(_)
Perms(S) ==
    IF S = {} THEN {<<>>}
    ELSE UNION {{<<x>> \o p : p \in Perms(S \ {x})} : x \in S}

\* the host during a call: range visits the keys of config.Header in any order
Envs(cfg) ==
    {[nextErr |-> ne, order |-> o] : ne \in NextErrs, o \in Perms(DOMAIN cfg.Header)}

\* names of extra headers: one the handler never sets, the four it sets, and
\* one that differs from "ETag" in case only
HeaderKeys ==
    {<<"X", "-", "I", "d">>, HeaderCacheControl, HeaderETag, <<"e", "t", "a", "g">>,
     HeaderContentType, HeaderLastModified}

\* the value configured for an extra header, non-empty and different for
\* each name
HeaderValue(k) == "v:" \o JoinStrings(k, "")

\* values of config.Header with at most MaxHeaders entries
HeaderMaps ==
    {[k \in K |-> HeaderValue(k)] :
        K \in {S \in SUBSET HeaderKeys : Cardinality(S) <= MaxHeaders}}

\* configurations of the serving steps: every ETag and Last-Modified setting,
\* without and with cache durations, without and with an extra ETag header
ServeConfigs ==
    {[BaseConfig EXCEPT !.MaxAge = c[1], !.SMaxAge = c[2], !.Header = h,
                        !.EnableStrongETag = st, !.DisableETag = de,
                        !.DisableLastModified = dl] :
        c \in {<<0, 0>>, <<31536000, 3600>>},
        h \in {NoHeaders, [k \in {HeaderETag} |-> HeaderValue(k)]},
        st \in BOOLEAN, de \in BOOLEAN, dl \in BOOLEAN}

\* configurations of the header steps: every cache duration and extra header
\* against every ETag and Last-Modified setting
HeaderConfigs ==
    {[BaseConfig EXCEPT !.MaxAge = ma, !.SMaxAge = sma, !.Header = h,
                        !.EnableStrongETag = st, !.DisableETag = de,
                        !.DisableLastModified = dl] :
        ma \in {-1, 0, 31536000}, sma \in {-1, 0, 3600}, h \in HeaderMaps,
        st \in BOOLEAN, de \in BOOLEAN, dl \in BOOLEAN}

\* requests to serve: a file with a known extension, one without
ServeRequests ==
    {[BaseRequest EXCEPT !.urlPath = u] :
        u \in {<<"/", "i", ".", "h", "t", "m", "l">>, <<"/", "x">>}}

\* backends of the serving steps: Get returns nil, empty or non-empty content
\* or fails; Stat returns nil or a FileInfo; NewReader succeeds or fails
ServeBackends ==
    {[exists |-> ex, get |-> g, stat |-> st, reader |-> rd] :
        ex \in BOOLEAN,
        g \in {[buf |-> b, err |-> NilErr] : b \in {NilBuf, Buf(""), Buf("abc")}}
              \cup {[buf |-> NilBuf, err |-> er] : er \in {BackendPlainErr, BackendHesErr}},
        st \in {NilInfo, InfoA, InfoB},
        rd \in {NilErr, BackendPlainErr, BackendHesErr}}

\* backends of the header steps: Stat returns nil or a FileInfo
HeaderBackends == {[BaseBackend EXCEPT !.stat = st] : st \in {NilInfo, InfoA}}

(***************************************************************************)
(* Specifications.                                                         *)
(***************************************************************************)
\* no request is being handled
Idle ==
    /\ request = BaseRequest
    /\ backend = BaseBackend
    /\ env = [nextErr |-> NilErr, order |-> <<>>]
    /\ response = EmptyResponse

\* New(staticFile, cfg) has returned the handler
Constructed(cfg) ==
    /\ config = cfg
    /\ cacheControl = CacheControl(cfg)
    /\ Idle

\* one call of the handler, on a request of reqs with a backend of bes
Serve(reqs, bes) ==
    /\ ~response.done
    /\ \E req \in reqs, be \in bes, e \in Envs(config) :
        /\ request' = req
        /\ backend' = be
        /\ env' = e
        /\ response' = Handle(config, cacheControl, req, be, e)
    /\ UNCHANGED <<config, cacheControl>>

\* the request state is discarded after the response is produced; the handler
\* keeps nothing of it
Discard ==
    /\ response.done
    /\ request' = BaseRequest
    /\ backend' = BaseBackend
    /\ env' = [nextErr |-> NilErr, order |-> <<>>]
    /\ response' = EmptyResponse
    /\ UNCHANGED <<config, cacheControl>>

\* the validation steps: every request path against every validation setting
Init == \E cfg \in Configs : Constructed(cfg)

Next ==
    \/ Serve(Requests, Backends)
    \/ Discard

Spec == Init /\ [][Next]_vars

\* the serving steps: every ETag and Last-Modified setting against every
\* backend outcome
InitServe == \E cfg \in ServeConfigs : Constructed(cfg)

NextServe ==
    \/ Serve(ServeRequests, ServeBackends)
    \/ Discard

SpecServe == InitServe /\ [][NextServe]_vars

\* the header steps: every cache duration and extra header on a file the
\* backend serves
InitHeader == \E cfg \in HeaderConfigs : Constructed(cfg)

NextHeader ==
    \/ Serve(ServeRequests, HeaderBackends)
    \/ Discard

SpecHeader == InitHeader /\ [][NextHeader]_vars

(***************************************************************************)
(* Vocabulary of the properties, stated on the inputs and the result of a  *)
(* call.                                                                   *)
(***************************************************************************)
\* the skip predicate in force answers true for the request
SkipPredicateTrue ==
    \/ config.Skipper = "nil" /\ request.committed
    \/ config.Skipper = "custom" /\ request.skipAnswer

\* the extracted path: the first route capture when non-empty, else the URL path
ExtractedPath ==
    IF request.rawParams # <<>> /\ request.rawParams[1] # <<>>
    THEN request.rawParams[1]
    ELSE request.urlPath

\* a '/'-separated segment of p starts with '.'
DotLedSegment(p) ==
    \E i \in 1..Len(p) : p[i] = "." /\ (i = 1 \/ p[i - 1] = "/")

\* the backend operations called during the call
OpsCalled == {response.calls[i].op : i \in DOMAIN response.calls}

\* how many times op was called
TimesCalled(op) == Cardinality({i \in DOMAIN response.calls : response.calls[i].op = op})

\* the handler set no header and no body
NothingSet ==
    /\ response.header = NoHeaders
    /\ response.bodyBuffer.isNil
    /\ response.body.isNil

\* the request is past the dot, traversal and query-string checks
PassesChecks ==
    /\ ~SkipPredicateTrue
    /\ ~(config.DenyDot /\ DotLedSegment(ExtractedPath))
    /\ HasPrefix(PathJoin(config.Path, ExtractedPath), config.Path)
    /\ ~(config.DenyQueryString /\ request.rawQuery # "")

(***************************************************************************)
(* Properties.                                                             *)
(***************************************************************************)
\* C5: when the skip predicate in force (config.Skipper, or the default one
\* when none is configured) answers true, the continuation is invoked exactly
\* once and its result returned, no backend operation is called, no
\* validation error is produced and no header or body is set, whatever the
\* path, the query string and the flags are.
C5_SkipBypassesHandler ==
    (response.done /\ SkipPredicateTrue) =>
        /\ response.next = 1
        /\ response.err = env.nextErr
        /\ response.calls = <<>>
        /\ NothingSet

\* a skipped request that every check would have rejected
C5_Witness ==
    /\ response.done
    /\ SkipPredicateTrue
    /\ config.Skipper = "nil"
    /\ config.DenyDot /\ DotLedSegment(ExtractedPath)
    /\ config.DenyQueryString /\ request.rawQuery # ""
    /\ response.next = 1

\* C2: with deny-dot enabled and the skip predicate false, a request whose
\* extracted path has a non-empty segment starting with '.' returns
\* NotAllowAccessDot (400) and no backend operation has been called.
C2_DotSegmentRejected ==
    (response.done /\ ~SkipPredicateTrue /\ config.DenyDot
        /\ DotLedSegment(ExtractedPath)) =>
        /\ response.err = ErrNotAllowAccessDot
        /\ response.err.status = 400
        /\ response.calls = <<>>
        /\ response.next = 0

\* a dot file below a directory, taken from the URL path behind an empty
\* route capture, is rejected
C2_Witness ==
    /\ response.done
    /\ config.DenyDot
    /\ request.rawParams = << <<>> >>
    /\ request.urlPath = <<"/", ".", "g">>
    /\ response.err = ErrNotAllowAccessDot

\* C3 as stated: with deny-query-string enabled, every request with a
\* non-empty raw query string returns NotAllowQueryString, whatever the path
\* and the other flags are.
C3_QueryStringAlwaysRejected ==
    (response.done /\ config.DenyQueryString /\ request.rawQuery # "") =>
        response.err = ErrNotAllowQueryString

\* C3 as amended: with deny-query-string enabled, a request with a non-empty
\* raw query string returns NotAllowQueryString (400), without any backend
\* call, when the skip predicate is false and the request passes the
\* dot-segment and traversal checks, which the handler applies first.
C3_QueryStringRejected ==
    (response.done /\ config.DenyQueryString /\ request.rawQuery # ""
        /\ ~SkipPredicateTrue
        /\ ~(config.DenyDot /\ DotLedSegment(ExtractedPath))
        /\ HasPrefix(PathJoin(config.Path, ExtractedPath), config.Path)) =>
        /\ response.err = ErrNotAllowQueryString
        /\ response.err.status = 400
        /\ response.calls = <<>>
        /\ response.next = 0

\* a query string on a path that holds a dot file, deny-dot being off
C3_Witness ==
    /\ response.done
    /\ config.DenyQueryString /\ request.rawQuery # ""
    /\ ~config.DenyDot /\ DotLedSegment(ExtractedPath)
    /\ response.err = ErrNotAllowQueryString

\* C4: when a request passes the dot, traversal and query-string checks and
\* the backend's Exists returns false: without not-found-next the handler
\* returns NotFound (404) and the continuation is not invoked; with it the
\* continuation is invoked exactly once, its result is returned and no
\* header or body has been set.  Get, Stat and NewReader are never called.
C4_NotFound ==
    (response.done /\ PassesChecks /\ ~backend.exists) =>
        /\ ~config.NotFoundNext =>
               /\ response.err = ErrNotFound
               /\ response.err.status = 404
               /\ response.next = 0
        /\ config.NotFoundNext =>
               /\ response.next = 1
               /\ response.err = env.nextErr
               /\ NothingSet
        /\ OpsCalled = {"Exists"}

\* a missing file falls through to a continuation that fails, strong ETag on
C4_Witness ==
    /\ response.done
    /\ PassesChecks /\ ~backend.exists
    /\ config.NotFoundNext /\ config.EnableStrongETag
    /\ env.nextErr # NilErr
    /\ response.next = 1

\* the '/'-separated elements of a cleaned path
Elems(p) == SelectSeq(SplitN(p, Sep), LAMBDA x : x # <<>>)

\* the file lies in the directory root, or is it
InsideRoot(file, root) ==
    LET f == Elems(Clean(file))
        r == Elems(Clean(root))
    IN  Len(f) >= Len(r) /\ SubSeq(f, 1, Len(r)) = r

\* C1: every path handed to the backend's Get and NewReader lies inside the
\* configured root: a request path whose clean-join with the root leaves the
\* root is rejected with OutOfPath before the backend is asked to read it.
C1_BackendPathsInsideRoot ==
    response.done =>
        \A i \in DOMAIN response.calls :
            response.calls[i].op \in {"Get", "NewReader"} =>
                InsideRoot(response.calls[i].file, config.Path)

\* the file was found and the continuation invoked: a served response
Served ==
    /\ response.done
    /\ "Exists" \in OpsCalled /\ backend.exists
    /\ response.next = 1

\* header names as the response carries them
ETagName == <<"E", "t", "a", "g">>
CacheControlName == <<"C", "a", "c", "h", "e", "-", "C", "o", "n", "t", "r", "o", "l">>
ContentTypeName == <<"C", "o", "n", "t", "e", "n", "t", "-", "T", "y", "p", "e">>
LastModifiedName == <<"L", "a", "s", "t", "-", "M", "o", "d", "i", "f", "i", "e", "d">>

\* the configured extra headers that name the response header name
ExtraKeysFor(name) == {k \in DOMAIN config.Header : CanonicalHeaderKey(k) = name}

\* ETag is enabled in weak mode
WeakMode == ~config.DisableETag /\ ~config.EnableStrongETag

\* ETag is enabled in strong mode
StrongMode == ~config.DisableETag /\ config.EnableStrongETag

\* C7 as stated: in weak mode a served response carries
\* W/"<hex size>-<hex unix mod-time>" when Stat is present, W/"78-652299680"
\* for size 120 and mod-time 1700000000, and no ETag when Stat is absent,
\* which is no error.
C7_WeakETagAsStated ==
    /\ (Served /\ WeakMode) =>
           /\ backend.stat = InfoA =>
                  /\ ETagName \in DOMAIN response.header
                  /\ response.header[ETagName] = "W/\"78-652299680\""
           /\ backend.stat = InfoB =>
                  /\ ETagName \in DOMAIN response.header
                  /\ response.header[ETagName] = "W/\"ff-1517f\""
           /\ backend.stat.isNil => ETagName \notin DOMAIN response.header
    /\ (response.done /\ WeakMode /\ backend.exists /\ backend.stat.isNil
            /\ backend.reader = NilErr) =>
           response.next = 1 /\ response.err = env.nextErr

\* C7 as amended: in weak mode, no extra header named ETag being configured,
\* a served response carries W/"<hex size>-<hex unix mod-time>" when Stat is
\* present, which is W/"78-6553f100" for size 120 and mod-time 1700000000,
\* and no ETag when Stat is absent, which is no error.
C7_WeakETag ==
    /\ (Served /\ WeakMode /\ ExtraKeysFor(ETagName) = {}) =>
           /\ backend.stat = InfoA =>
                  /\ ETagName \in DOMAIN response.header
                  /\ response.header[ETagName] = "W/\"78-6553f100\""
           /\ backend.stat = InfoB =>
                  /\ ETagName \in DOMAIN response.header
                  /\ response.header[ETagName] = "W/\"ff-1517f\""
           /\ backend.stat.isNil => ETagName \notin DOMAIN response.header
    /\ (response.done /\ WeakMode /\ backend.exists /\ backend.stat.isNil
            /\ backend.reader = NilErr) =>
           response.next = 1 /\ response.err = env.nextErr

\* a file of 120 bytes modified at 1700000000 served with a weak ETag
C7_Witness ==
    /\ Served /\ WeakMode /\ ExtraKeysFor(ETagName) = {}
    /\ backend.stat = InfoA
    /\ ETagName \in DOMAIN response.header

\* the call met a failure of Get, of NewReader
ReadFailed == "Get" \in OpsCalled /\ backend.get.err # NilErr
OpenFailed == "NewReader" \in OpsCalled /\ backend.reader # NilErr

\* C8: a backend failure ends the call with an error and without the
\* continuation: a failed Get yields 500 and a failed NewReader 400, unless
\* the backend's error carries a status code, and then that error is returned
\* unchanged, for Get and for NewReader alike.
C8_BackendFailures ==
    response.done =>
        /\ ReadFailed =>
               /\ response.next = 0
               /\ IF backend.get.err.kind = "hes"
                  THEN response.err = backend.get.err
                  ELSE response.err.kind = "hes" /\ response.err.status = 500
        /\ OpenFailed =>
               /\ response.next = 0
               /\ IF backend.reader.kind = "hes"
                  THEN response.err = backend.reader
                  ELSE response.err.kind = "hes" /\ response.err.status = 400

\* C9: a request past the existence check that meets no backend failure gets
\* exactly one body and then the continuation, once: in strong mode the
\* content the one Get returned, whatever it is, and NewReader is not called;
\* otherwise the stream NewReader returned, and Get is not called.
C9_OneBodyMode ==
    (response.done /\ "Exists" \in OpsCalled /\ backend.exists
        /\ ~ReadFailed /\ ~OpenFailed) =>
        /\ response.next = 1
        /\ response.bodyBuffer.isNil # response.body.isNil
        /\ IF StrongMode
           THEN /\ TimesCalled("Get") = 1
                /\ ~response.bodyBuffer.isNil
                /\ response.bodyBuffer.data = backend.get.buf.data
                /\ "NewReader" \notin OpsCalled
           ELSE /\ TimesCalled("NewReader") = 1
                /\ ~response.body.isNil
                /\ "Get" \notin OpsCalled

\* the cache-control value of the durations of the model
ExpectedCacheControl ==
    IF config.MaxAge = 31536000 /\ config.SMaxAge = 3600
    THEN "public, max-age=31536000, s-maxage=3600"
    ELSE IF config.MaxAge = 31536000 THEN "public, max-age=31536000"
    ELSE IF config.SMaxAge = 3600 THEN "public, s-maxage=3600"
    ELSE ""

\* C6 as stated: the value computed at construction is "public", then
\* "max-age=<MaxAge>" if MaxAge > 0, then "s-maxage=<SMaxAge>" if SMaxAge > 0,
\* joined with ", "; a served response carries it as Cache-Control when a
\* duration is > 0 and carries no Cache-Control at all when none is.
C6_CacheControlAsStated ==
    /\ cacheControl = ExpectedCacheControl
    /\ Served =>
           IF config.MaxAge > 0 \/ config.SMaxAge > 0
           THEN /\ CacheControlName \in DOMAIN response.header
                /\ response.header[CacheControlName] = ExpectedCacheControl
           ELSE CacheControlName \notin DOMAIN response.header

\* C6 as amended: the same, but when no duration is > 0 the handler adds no
\* Cache-Control of its own ("public" alone is never emitted): the response
\* carries Cache-Control only if an extra header of that name is configured,
\* and then with a configured value.
C6_CacheControl ==
    /\ cacheControl = ExpectedCacheControl
    /\ Served =>
           IF config.MaxAge > 0 \/ config.SMaxAge > 0
           THEN /\ CacheControlName \in DOMAIN response.header
                /\ response.header[CacheControlName] = ExpectedCacheControl
           ELSE /\ CacheControlName \in DOMAIN response.header
                       <=> ExtraKeysFor(CacheControlName) # {}
                /\ CacheControlName \in DOMAIN response.header =>
                       response.header[CacheControlName] \in
                           {config.Header[k] : k \in ExtraKeysFor(CacheControlName)}

\* both durations set and an extra Cache-Control header configured: the
\* response carries the computed value
C6_Witness ==
    /\ Served
    /\ config.MaxAge = 31536000 /\ config.SMaxAge = 3600
    /\ ExtraKeysFor(CacheControlName) # {}
    /\ response.header[CacheControlName] = "public, max-age=31536000, s-maxage=3600"

\* C10 as stated: on a served response every configured extra header name
\* carries its configured value, overwriting what the handler set for that
\* name (Content-Type, ETag, Last-Modified, Cache-Control), for every header
\* map whose keys name different headers and every cache duration.
C10_ExtraHeadersAsStated ==
    Served =>
        \A k \in DOMAIN config.Header :
            ExtraKeysFor(CanonicalHeaderKey(k)) = {k} =>
                /\ CanonicalHeaderKey(k) \in DOMAIN response.header
                /\ response.header[CanonicalHeaderKey(k)] = config.Header[k]

\* C10 as amended: on a served response every configured extra header name
\* carries its configured value, overwriting what the handler set before for
\* that name (Content-Type, ETag, Last-Modified), with two exceptions:
\* Cache-Control carries the computed cache-control value when a cache
\* duration is > 0, because that header is set after the extra headers; and
\* of configured names that differ in case only, which name one header, the
\* header carries the value of one of them.
C10_ExtraHeaders ==
    Served =>
        \A k \in DOMAIN config.Header :
            LET name == CanonicalHeaderKey(k)
            IN  /\ name \in DOMAIN response.header
                /\ IF name = CacheControlName /\ (config.MaxAge > 0 \/ config.SMaxAge > 0)
                   THEN response.header[name] = ExpectedCacheControl
                   ELSE IF ExtraKeysFor(name) = {k}
                   THEN response.header[name] = config.Header[k]
                   ELSE response.header[name] \in
                            {config.Header[k2] : k2 \in ExtraKeysFor(name)}

\* extra ETag and Content-Type headers replace the weak ETag and the
\* content type that the handler set for an HTML file
C10_Witness ==
    /\ Served /\ WeakMode /\ ~backend.stat.isNil
    /\ DOMAIN config.Header = {HeaderETag, HeaderContentType}
    /\ TypeByExtension(Ext(request.urlPath)) # ""
    /\ response.header[ETagName] = config.Header[HeaderETag]
    /\ response.header[ContentTypeName] = config.Header[HeaderContentType]

====
